---- MODULE Spec2Model ----
(***************************************************************************)
(* The upload pipeline of MenuMaker's backend: the /api/upload handler in  *)
(* its three versions,                                                      *)
(*   "disk"   src/backend/server.js 1-126   (upload.array, local files)    *)
(*   "single" src/backend/server.js 132-233 (upload.single, local files)   *)
(*   "s3"     src/unnamed/part_000          (upload.array, memory + S3)    *)
(* served to two concurrent requests.  One action is the code that runs    *)
(* from the completion of one await to the start of the next.              *)
(***************************************************************************)
EXTENDS Integers, Sequences, FiniteSets, TLC

\* Largest page count of an uploaded document.
MaxPages == 2
\* Largest value of the millisecond clock read by Date.now().
MaxClock == 1
\* Largest page count of the document whose keys are followed.
MaxListed == 11
\* Largest width and height of a page, in the document's units.
MaxSide == 4
\* Largest number of image URLs handed to a viewer.
MaxUrls == 3
\* Largest number of characters of an image URL.
MaxUrlLen == 2
\* Largest number of uploads started from one Editor.
MaxUploads == 2
\* The runs of the preload effect of one mounted FlipbookCanvasViewer.
MaxRuns == 3
\* The failed attempts to initialise the PageFlip engine.
MaxFailures == 2
\* The pages of one preloaded list.
MaxPreloaded == 4
\* The runs of the init effect of one zoom-capable FlipbookViewer.
MaxInits == 2
\* The pages of a book shown by the zoom-capable FlipbookViewer.
MaxBookPages == 3

Requests == {1, 2}
Variants == {"disk", "single", "s3"}
Names == {"a", "b"}
PDF == "application/pdf"
PNG == "image/png"

VARIABLES
    variant,        \* which version of the server is running
    now,            \* Date.now()
    pc,             \* per request: the await the handler is suspended at
    body,           \* per request: the multipart body (files in upload order)
    files,          \* per request: req.files / req.file as multer built them
    mode,           \* per request: the branch the handler took
    uploads,        \* the uploads/ directory: path -> bytes
    storage,        \* public/ directory or the S3 bucket: key -> bytes
    outputDir,      \* per request: outputDir of the handler
    pdf,            \* per request: the document pdfjs opened
    i,              \* per request: the loop variable of the running loop
    imageBuffers,   \* per request: imageBuffers of convertPdfToImages (s3)
    key,            \* per request: Key of the S3 upload in flight
    imageUrls,      \* per request: imageUrls
    res,            \* per request: the responses sent
    err,            \* per request: the first exception thrown in the try block
    stored,         \* per request: the storage writes that completed, in order
    trace,          \* per request: the render and write events, in order
    canvases,       \* per request: the number of canvases createCanvas has returned
    releases,       \* per request: the files whose release was attempted
    disconnectedAt, \* per request: Len(trace) when the client went away, or -1
    written,        \* the keys one long conversion gave its pages, in order
    surfaces,       \* the page, viewport and canvas of each iteration of a loop
    scrollable,     \* ScrollableViewer: its imageUrls prop, currentPage, pending effect
    flipbook,       \* FlipbookViewer: the urls injected and the page nodes of the container
    editor,         \* Editor: selectedFiles, layout, isLoading, error and the running handleUpload
    sessionStorage, \* the tab's sessionStorage item 'menuData'
    opened,         \* the menuData each opened Viewer read
    responses,      \* the upload responses handled so far
    canvasViewer,   \* FlipbookCanvasViewer: its imageUrls, refs, engines made and running init attempts
    preloaded,      \* FlipbookCanvasViewer: the results of preloading, one per page
    spreads,        \* FlipbookCanvasViewer: the spreads built from preloaded (without their layout)
    zoomBook        \* zoom-capable FlipbookViewer: zoom state, book element style, page, and the zoomed its turned callback captured

serverVars == <<variant, now, pc, body, files, mode, uploads, storage, outputDir, pdf,
          i, imageBuffers, key, imageUrls, res, err, stored, trace, canvases,
          releases, disconnectedAt>>

\* The state outside the handlers of the two requests: the keys of one long
\* conversion, the surfaces of one page loop.
keyVars == <<written>>
scaleVars == <<surfaces>>
scrollVars == <<scrollable>>
flipVars == <<flipbook>>
editorVars == <<editor, sessionStorage, opened, responses>>
engineVars == <<canvasViewer>>
spreadVars == <<preloaded, spreads>>
zoomVars == <<zoomBook>>
clientVars == <<keyVars, scaleVars, scrollVars, flipVars, editorVars, engineVars, spreadVars, zoomVars>>

vars == <<serverVars, clientVars>>

\* For each part of the client state, the other parts.
keyRest == <<scaleVars, scrollVars, flipVars, editorVars, engineVars, spreadVars, zoomVars>>
scaleRest == <<keyVars, scrollVars, flipVars, editorVars, engineVars, spreadVars, zoomVars>>
scrollRest == <<keyVars, scaleVars, flipVars, editorVars, engineVars, spreadVars, zoomVars>>
flipRest == <<keyVars, scaleVars, scrollVars, editorVars, engineVars, spreadVars, zoomVars>>
editorRest == <<keyVars, scaleVars, scrollVars, flipVars, engineVars, spreadVars, zoomVars>>
engineRest == <<keyVars, scaleVars, scrollVars, flipVars, editorVars, spreadVars, zoomVars>>
spreadRest == <<keyVars, scaleVars, scrollVars, flipVars, editorVars, engineVars, zoomVars>>
zoomRest == <<keyVars, scaleVars, scrollVars, flipVars, editorVars, engineVars, spreadVars>>

----------------------------------------------------------------------------
\* Byte contents.  Uploaded bytes carry the request that sent them, so that
\* contents of different batches are distinguishable.
PdfBytes(r, n) == <<"pdf", r, n>>
ImgBytes(r, j) == <<"img", r, j>>
BadBytes(r) == <<"bad", r, 0>>
NoBytes == <<"none", 0, 0>>

\* pdfjsLib.getDocument(data).promise resolves iff the bytes are a document.
Parsable(data) == data[1] = "pdf"
\* pdf.numPages
NumPages(doc) == doc[3]
\* getPage(p), page.render onto a fresh canvas, canvas.toBuffer('image/png')
RenderPage(doc, p) == <<"png", doc[2], p>>

\* `page_${i}.png`
PageName(p) == "page_" \o ToString(p) \o ".png"

\* path.join on paths held as sequences of components
PathJoin(a, b) == a \o b
\* path.relative(from, to) for `to` below `from`
PathRelative(from, to) == SubSeq(to, Len(from) + 1, Len(to))

RECURSIVE JoinSlash(_)
JoinSlash(p) ==
    IF Len(p) = 0 THEN ""
    ELSE IF Len(p) = 1 THEN p[1]
    ELSE p[1] \o "/" \o JoinSlash(Tail(p))

PublicDir == <<"public">>
UploadsDir == <<"uploads">>

\* `/public/${relativePath.replace(/\\/g, '/')}`
PublicUrl(path) == "/public/" \o JoinSlash(PathRelative(PublicDir, path))

\* multer.diskStorage filename: `${Date.now()}-${file.originalname}`
MulterFilename(t, originalname) == ToString(t) \o "-" \o originalname

\* path.join(__dirname, 'public', 'output', `${Date.now()}`)
OutputDirAt(t) == PathJoin(PublicDir, <<"output", ToString(t)>>)

\* uploadToS3: Key: `output/${Date.now()}-${filename}`
S3Key(t, filename) == "output/" \o ToString(t) \o "-" \o filename
\* uploadResult.Location
S3Location(k) == "https://bucket.s3.amazonaws.com/" \o k

\* The public locator of a stored asset.
LocatorOf(k) == IF variant = "s3" THEN S3Location(k) ELSE PublicUrl(k)

\* File-system / bucket maps.
Empty == [p \in {} |-> NoBytes]
Put(fs, k, v) == [p \in DOMAIN fs \cup {k} |-> IF p = k THEN v ELSE fs[p]]
Remove(fs, k) == [p \in DOMAIN fs \ {k} |-> fs[p]]

----------------------------------------------------------------------------
\* The multipart bodies a client may send.
Part(name, mime, bytes) ==
    [originalname |-> name, mimetype |-> mime, content |-> bytes]

SingleParts(r) ==
    {Part("a", PDF, PdfBytes(r, n)) : n \in 0..MaxPages}
        \cup {Part("a", PDF, BadBytes(r)),
              Part("a", PNG, ImgBytes(r, 1)),
              Part("a", PNG, PdfBytes(r, 1))}

PageParts(r, j, name) ==
    {Part(name, PNG, ImgBytes(r, j)), Part(name, PDF, PdfBytes(r, 1))}

\* Request 1 sends any of the bodies; request 2 is the batch of another client
\* running beside it: a document of one or two pages, or an image, under the
\* same name.
OtherParts(r) ==
    {Part("a", PDF, PdfBytes(r, 1)), Part("a", PDF, PdfBytes(r, 2)),
     Part("a", PNG, ImgBytes(r, 1))}

Bodies(r) ==
    IF r = 1
    THEN {<<>>} \cup {<<p>> : p \in SingleParts(r)}
            \cup (IF variant = "single" THEN {}
                  ELSE {<<p, q>> : p \in PageParts(r, 1, "a"),
                                   q \in UNION {PageParts(r, 2, n) : n \in Names}})
    ELSE {<<p>> : p \in OtherParts(r)}

NoPdf == NoBytes
NoErr == [kind |-> "none", index |-> 0]

\* The server has started and no request has arrived.
ServerInit ==
    /\ variant \in Variants
    /\ now = 0
    /\ pc = [r \in Requests |-> "idle"]
    /\ body = [r \in Requests |-> <<>>]
    /\ files = [r \in Requests |-> <<>>]
    /\ mode = [r \in Requests |-> "none"]
    /\ uploads = Empty
    /\ storage = Empty
    /\ outputDir = [r \in Requests |-> <<>>]
    /\ pdf = [r \in Requests |-> NoPdf]
    /\ i = [r \in Requests |-> 0]
    /\ imageBuffers = [r \in Requests |-> <<>>]
    /\ key = [r \in Requests |-> ""]
    /\ imageUrls = [r \in Requests |-> <<>>]
    /\ res = [r \in Requests |-> <<>>]
    /\ err = [r \in Requests |-> NoErr]
    /\ stored = [r \in Requests |-> <<>>]
    /\ trace = [r \in Requests |-> <<>>]
    /\ canvases = [r \in Requests |-> 0]
    /\ releases = [r \in Requests |-> <<>>]
    /\ disconnectedAt = [r \in Requests |-> -1]

\* No page of the long conversion has a key yet.
KeysIdle == written = <<>>

\* The page loop has allocated no surface yet.
ScaleIdle == surfaces = <<>>

\* No ScrollableViewer is mounted.
ScrollIdle ==
    /\ scrollable = [mounted |-> FALSE, imageUrls |-> <<>>, currentPage |-> 0,
                     effect |-> FALSE]

\* The flipbook container is empty.
FlipIdle ==
    /\ flipbook = [injected |-> FALSE, urls |-> <<>>, nodes |-> <<>>]

\* sessionStorage.getItem of a key that was never set
NoItem == <<>>

\* The Editor is mounted; nothing was uploaded from this tab.
EditorIdle ==
    /\ editor = [selectedFiles |-> 0, layout |-> "dual", isLoading |-> FALSE,
                 error |-> "", pc |-> "idle", closure |-> "dual"]
    /\ sessionStorage = NoItem
    /\ opened = <<>>
    /\ responses = <<>>

\* FlipbookCanvasViewer before its first render: useRef(null), useState(false).
EngineIdle ==
    /\ canvasViewer = [imageUrls |-> <<>>, run |-> 0, attempts |-> [k \in 1..MaxRuns |-> "none"], pageFlipRef |-> 0, engines |-> 0, retryTimer |-> 0, engineAvailable |-> FALSE, failures |-> 0]

\* FlipbookCanvasViewer before preloading: useState([]) twice.
SpreadsIdle ==
    /\ preloaded = <<>>
    /\ spreads = <<>>

\* The zoom-capable FlipbookViewer before its init effect: useState(false), useState(1), panRef { x: 0, y: 0 }.
ZoomIdle ==
    /\ zoomBook = [inits |-> 0, totalPages |-> 0, captured |-> FALSE, zoomToolActive |-> FALSE, zoomed |-> FALSE, swapping |-> FALSE, transform |-> "", pan |-> <<0, 0>>, currentPage |-> 1, turning |-> 0, turnedZoomed |-> FALSE]

ClientIdle == KeysIdle /\ ScaleIdle /\ ScrollIdle /\ FlipIdle /\ EditorIdle /\ EngineIdle /\ SpreadsIdle /\ ZoomIdle

Init == ServerInit /\ ClientIdle

\* The clock advances by itself.
Tick ==
    /\ now < MaxClock
    /\ now' = now + 1
    /\ UNCHANGED <<variant, pc, body, files, mode, uploads, storage, outputDir,
                   pdf, i, imageBuffers, key, imageUrls, res, err, stored, trace,
                   canvases, releases, disconnectedAt, clientVars>>

\* A client posts a batch.
Arrive(r) ==
    /\ pc[r] = "idle"
    /\ \E b \in Bodies(r) : body' = [body EXCEPT ![r] = b]
    /\ pc' = [pc EXCEPT ![r] = "multer"]
    /\ UNCHANGED <<variant, now, files, mode, uploads, storage, outputDir, pdf,
                   i, imageBuffers, key, imageUrls, res, err, stored, trace,
                   canvases, releases, disconnectedAt, clientVars>>

\* multer takes the next file of the body: diskStorage names it after the
\* clock and writes it below uploads/, memoryStorage keeps its bytes.
MulterFile(r) ==
    /\ pc[r] = "multer"
    /\ Len(files[r]) < Len(body[r])
    /\ LET part == body[r][Len(files[r]) + 1]
           filename == MulterFilename(now, part.originalname)
           path == PathJoin(UploadsDir, <<filename>>)
       IN  IF variant = "s3"
           THEN /\ files' = [files EXCEPT ![r] = Append(@,
                        [originalname |-> part.originalname,
                         mimetype |-> part.mimetype,
                         filename |-> "", path |-> <<>>,
                         buffer |-> part.content])]
                /\ UNCHANGED uploads
           ELSE /\ files' = [files EXCEPT ![r] = Append(@,
                        [originalname |-> part.originalname,
                         mimetype |-> part.mimetype,
                         filename |-> filename, path |-> path,
                         buffer |-> NoBytes])]
                /\ uploads' = Put(uploads, path, part.content)
    /\ UNCHANGED <<variant, now, pc, body, mode, storage, outputDir, pdf, i,
                   imageBuffers, key, imageUrls, res, err, stored, trace,
                   canvases, releases, disconnectedAt, clientVars>>

----------------------------------------------------------------------------
\* res.status(400).send(...), res.status(500).send(...), res.json({ imageUrls })
JsonResponse(urls) == [status |-> 200, imageUrls |-> urls]
\* BadRequest of a handler that forgets status(400).
BadRequestNoStatus == [status |-> 200, imageUrls |-> <<>>]
BadRequest == [status |-> 400, imageUrls |-> <<>>]
\* CatchResponse of a catch block that answers with what was collected.
CatchPartial(urls) == JsonResponse(urls)
\* CatchResponse of a catch block that forgets status(500).
CatchNoStatus(urls) == [status |-> 200, imageUrls |-> <<>>]
CatchResponse(urls) == [status |-> 500, imageUrls |-> <<>>]

\* PushUrl with unshift in place of push.
UnshiftUrl(urls, u) == <<u>> \o urls

\* imageUrls.push(u)
PushUrl(urls, u) == Append(urls, u)

\* IsSinglePdf with the length test left out.
IsSinglePdfAnyLength(uploadedFiles) == uploadedFiles[1].mimetype = PDF

\* uploadedFiles.length === 1 && uploadedFiles[0].mimetype === 'application/pdf'
IsSinglePdf(uploadedFiles) ==
    Len(uploadedFiles) = 1 /\ uploadedFiles[1].mimetype = PDF

\* NextIndex of a loop that steps by two.
SkipIndex(p) == p + 2

\* i++ of the page loop
NextIndex(p) == p + 1

\* CreateCanvas of a canvas made once per conversion, outside the loop.
SharedCanvas(r, n) == <<r, 1>>

\* createCanvas(viewport.width, viewport.height) inside the loop body: a
\* canvas no earlier call returned, named by the request that made it and
\* the number of canvases the request had made before.
CreateCanvas(r, n) == <<r, n + 1>>

\* Events of the trace: a render started on a canvas, a page was rendered and
\* encoded, a render failed, a storage write was started, a write completed.
NoCanvas == <<0, 0>>
Event(e, p) == [ev |-> e, page |-> p, canvas |-> NoCanvas]
StartEvent(p, c) == [ev |-> "start", page |-> p, canvas |-> c]

Log(r, events) == trace' = [trace EXCEPT ![r] = @ \o events]

\* An iteration of the page loop begins: getPage(p), a new canvas and
\* page.render(...) on it, after the events `before` of the same step.
BeginRender(r, p, before) ==
    /\ trace' = [trace EXCEPT ![r] =
                    @ \o before
                      \o <<StartEvent(p, CreateCanvas(r, canvases[r]))>>]
    /\ canvases' = [canvases EXCEPT ![r] = @ + 1]

\* AfterRenderEvents of a loop that does not await fs.writeFile.
AfterRenderEventsNoAwait(p) ==
    <<Event("encode", p), Event("put", p), StartEvent(p + 1, NoCanvas)>>

\* What follows page.render(...) in the loop body of the local-file versions:
\* canvas.toBuffer, then fs.writeFile is awaited.
AfterRenderEvents(p) == <<Event("encode", p), Event("put", p)>>

\* An exception reaches the catch block.  The array handlers answer 500 at
\* once; the single-file handler first awaits the unlink of the upload.
Throw(r, kind, idx) ==
    /\ err' = [err EXCEPT ![r] = [kind |-> kind, index |-> idx]]
    /\ IF variant = "single"
       THEN /\ pc' = [pc EXCEPT ![r] = "catch"]
            /\ UNCHANGED res
       ELSE /\ pc' = [pc EXCEPT ![r] = "done"]
            /\ res' = [res EXCEPT ![r] = Append(@, CatchResponse(imageUrls[r]))]

\* res.json({ imageUrls }) ends the handler.
SendJson(r, urls) ==
    /\ res' = [res EXCEPT ![r] = Append(@, JsonResponse(urls))]
    /\ pc' = [pc EXCEPT ![r] = "done"]

\* The handler is entered once multer has taken every file.
\* upload.array handlers: the empty check, the classification, and the
\* synchronous code up to the first await of the branch taken.
HandlerArray(r) ==
    /\ variant \in {"disk", "s3"}
    /\ pc[r] = "multer"
    /\ Len(files[r]) = Len(body[r])
    /\ IF Len(files[r]) = 0
       THEN /\ res' = [res EXCEPT ![r] = Append(@, BadRequest)]
            /\ pc' = [pc EXCEPT ![r] = "done"]
            /\ UNCHANGED <<mode, outputDir, i, key, trace>>
       ELSE IF IsSinglePdf(files[r])
       THEN /\ mode' = [mode EXCEPT ![r] = "Document"]
            /\ outputDir' = [outputDir EXCEPT ![r] =
                                IF variant = "disk" THEN OutputDirAt(now) ELSE @]
            /\ pc' = [pc EXCEPT ![r] =
                         IF variant = "disk" THEN "readFile" ELSE "getDocument"]
            /\ UNCHANGED <<res, i, key, trace>>
       ELSE /\ mode' = [mode EXCEPT ![r] = "Collection"]
            /\ i' = [i EXCEPT ![r] = 1]
            /\ key' = [key EXCEPT ![r] =
                          IF variant = "s3"
                          THEN S3Key(now, files[r][1].originalname) ELSE @]
            /\ pc' = [pc EXCEPT ![r] =
                         IF variant = "disk" THEN "rename" ELSE "uploadImage"]
            /\ Log(r, <<Event("put", 1)>>)
            /\ UNCHANGED <<res, outputDir>>
    /\ UNCHANGED <<variant, now, body, files, uploads, storage, pdf,
                   imageBuffers, imageUrls, err, stored, canvases, releases,
                   disconnectedAt, clientVars>>

\* upload.single handler: every uploaded file is converted.
HandlerSingle(r) ==
    /\ variant = "single"
    /\ pc[r] = "multer"
    /\ Len(files[r]) = Len(body[r])
    /\ IF Len(files[r]) = 0
       THEN /\ res' = [res EXCEPT ![r] = Append(@, BadRequest)]
            /\ pc' = [pc EXCEPT ![r] = "done"]
            /\ UNCHANGED <<mode, outputDir>>
       ELSE /\ mode' = [mode EXCEPT ![r] = "Document"]
            /\ outputDir' = [outputDir EXCEPT ![r] = OutputDirAt(now)]
            /\ pc' = [pc EXCEPT ![r] = "readFile"]
            /\ UNCHANGED res
    /\ UNCHANGED <<variant, now, body, files, uploads, storage, pdf, i,
                   imageBuffers, key, imageUrls, err, stored, trace, canvases,
                   releases, disconnectedAt, clientVars>>

\* The document opened.  The page loop starts at i = 1; with pdf.numPages = 0
\* it is skipped and convertPdfToImages returns the empty list: the local-file
\* handlers then await fs.unlink(pdfFilePath), the S3 handler skips its
\* upload loop too and answers.
AfterOpen(r, doc) ==
    /\ pdf' = [pdf EXCEPT ![r] = doc]
    /\ IF NumPages(doc) >= 1
       THEN /\ i' = [i EXCEPT ![r] = 1]
            /\ pc' = [pc EXCEPT ![r] = "render"]
            /\ BeginRender(r, 1, <<>>)
            /\ UNCHANGED <<res, err>>
       ELSE IF variant = "s3"
       THEN /\ SendJson(r, imageUrls[r])
            /\ UNCHANGED <<i, err, trace, canvases>>
       ELSE /\ pc' = [pc EXCEPT ![r] = "unlink"]
            /\ UNCHANGED <<i, res, err, trace, canvases>>

\* fs.readFile(pdfPath) and getDocument(data) of the local-file versions.
ReadFile(r) ==
    /\ pc[r] = "readFile"
    /\ LET path == files[r][1].path
       IN  IF path \notin DOMAIN uploads
           THEN Throw(r, "read", 0) /\ UNCHANGED <<pdf, i, trace, canvases>>
           ELSE IF Parsable(uploads[path])
           THEN AfterOpen(r, uploads[path])
           ELSE Throw(r, "open", 0) /\ UNCHANGED <<pdf, i, trace, canvases>>
    /\ UNCHANGED <<variant, now, body, files, mode, uploads, storage, outputDir,
                   imageBuffers, key, imageUrls, stored, releases,
                   disconnectedAt, clientVars>>

\* getDocument(new Uint8Array(pdfBuffer)) of the S3 version.
GetDocument(r) ==
    /\ pc[r] = "getDocument"
    /\ LET data == files[r][1].buffer
       IN  IF Parsable(data)
           THEN AfterOpen(r, data)
           ELSE Throw(r, "open", 0) /\ UNCHANGED <<pdf, i, trace, canvases>>
    /\ UNCHANGED <<variant, now, body, files, mode, uploads, storage, outputDir,
                   imageBuffers, key, imageUrls, stored, releases,
                   disconnectedAt, clientVars>>

\* getPage(i) and page.render(...) of page i settle.  On the local-file
\* versions the page is then written; on the S3 version its buffer is pushed
\* and after the last page the upload loop starts with i = 0.
Render(r) ==
    /\ pc[r] = "render"
    /\ \E ok \in BOOLEAN :
        IF ~ok
        THEN /\ Throw(r, "render", i[r])
             /\ Log(r, <<Event("fail", i[r])>>)
             /\ UNCHANGED <<i, imageBuffers, key, canvases>>
        ELSE IF variant # "s3"
        THEN /\ pc' = [pc EXCEPT ![r] = "writeFile"]
             /\ Log(r, AfterRenderEvents(i[r]))
             /\ UNCHANGED <<i, imageBuffers, key, res, err, canvases>>
        ELSE /\ imageBuffers' = [imageBuffers EXCEPT ![r] =
                                    Append(@, RenderPage(pdf[r], i[r]))]
             /\ IF NextIndex(i[r]) <= NumPages(pdf[r])
                THEN /\ i' = [i EXCEPT ![r] = NextIndex(@)]
                     /\ BeginRender(r, NextIndex(i[r]),
                                    <<Event("encode", i[r])>>)
                     /\ UNCHANGED <<pc, key>>
                ELSE /\ i' = [i EXCEPT ![r] = 0]
                     /\ key' = [key EXCEPT ![r] = S3Key(now, PageName(0 + 1))]
                     /\ pc' = [pc EXCEPT ![r] = "uploadPage"]
                     /\ Log(r, <<Event("encode", i[r]), Event("put", 1)>>)
                     /\ UNCHANGED canvases
             /\ UNCHANGED <<res, err>>
    /\ UNCHANGED <<variant, now, body, files, mode, uploads, storage, outputDir,
                   pdf, imageUrls, stored, releases, disconnectedAt, clientVars>>

\* A storage write completed: it is recorded with its key and bytes.
Record(r, k, bytes) ==
    stored' = [stored EXCEPT ![r] = Append(@, [key |-> k, content |-> bytes])]

\* StoreFailed of a handler that rolls back the assets the request stored.
StoreFailedRollback(r, idx) ==
    /\ Throw(r, "store", idx)
    /\ storage' = [k \in DOMAIN storage \
                        {stored[r][j].key : j \in 1..Len(stored[r])} |-> storage[k]]
    /\ UNCHANGED <<stored, imageUrls, i, key, uploads, trace, canvases>>

\* A storage write failed: the exception propagates, nothing else happens.
StoreFailed(r, idx) ==
    /\ Throw(r, "store", idx)
    /\ UNCHANGED <<storage, stored, imageUrls, i, key, uploads, trace, canvases>>

\* fs.writeFile(outputPath, buffer) of page i settles (local-file versions).
WriteFile(r) ==
    /\ pc[r] = "writeFile"
    /\ LET outputPath == PathJoin(outputDir[r], <<PageName(i[r])>>)
           buffer == RenderPage(pdf[r], i[r])
       IN  \E ok \in BOOLEAN :
            IF ~ok
            THEN StoreFailed(r, i[r])
            ELSE /\ storage' = Put(storage, outputPath, buffer)
                 /\ Record(r, outputPath, buffer)
                 /\ imageUrls' = [imageUrls EXCEPT ![r] =
                                     PushUrl(@, PublicUrl(outputPath))]
                 /\ i' = [i EXCEPT ![r] = NextIndex(@)]
                 /\ IF NextIndex(i[r]) <= NumPages(pdf[r])
                    THEN /\ pc' = [pc EXCEPT ![r] = "render"]
                         /\ BeginRender(r, NextIndex(i[r]),
                                        <<Event("write", i[r])>>)
                    ELSE /\ pc' = [pc EXCEPT ![r] = "unlink"]
                         /\ Log(r, <<Event("write", i[r])>>)
                         /\ UNCHANGED canvases
                 /\ UNCHANGED <<res, err, key, uploads>>
    /\ UNCHANGED <<variant, now, body, files, mode, outputDir, pdf,
                   imageBuffers, releases, disconnectedAt, clientVars>>

\* s3.upload of imageBuffers[i] settles (S3 version, document branch).  The
\* Key was fixed when uploadToS3 was called; the next call reads the clock.
UploadPage(r) ==
    /\ pc[r] = "uploadPage"
    /\ LET buffer == imageBuffers[r][i[r] + 1]
       IN  \E ok \in BOOLEAN :
            IF ~ok
            THEN StoreFailed(r, i[r] + 1)
            ELSE /\ storage' = Put(storage, key[r], buffer)
                 /\ Record(r, key[r], buffer)
                 /\ imageUrls' = [imageUrls EXCEPT ![r] =
                                     PushUrl(@, S3Location(key[r]))]
                 /\ i' = [i EXCEPT ![r] = @ + 1]
                 /\ IF i[r] + 1 < Len(imageBuffers[r])
                    THEN /\ key' = [key EXCEPT ![r] =
                                       S3Key(now, PageName(i[r] + 1 + 1))]
                         /\ Log(r, <<Event("write", i[r] + 1),
                                     Event("put", i[r] + 2)>>)
                         /\ UNCHANGED <<pc, res>>
                    ELSE /\ SendJson(r, imageUrls'[r])
                         /\ Log(r, <<Event("write", i[r] + 1)>>)
                         /\ UNCHANGED key
                 /\ UNCHANGED <<err, uploads, canvases>>
    /\ UNCHANGED <<variant, now, body, files, mode, outputDir, pdf,
                   imageBuffers, releases, disconnectedAt, clientVars>>

\* fs.rename(imageFile.path, finalPath) of the i-th file settles (array
\* handler on local files, image branch).  The rename is what takes the
\* temporary upload out of uploads/.
Rename(r) ==
    /\ pc[r] = "rename"
    /\ LET imageFile == files[r][i[r]]
           finalPath == PathJoin(PublicDir,
                                 <<"output", "images", imageFile.filename>>)
       IN  \E ok \in BOOLEAN :
            IF ~ok \/ imageFile.path \notin DOMAIN uploads
            THEN StoreFailed(r, i[r])
            ELSE /\ storage' = Put(storage, finalPath, uploads[imageFile.path])
                 /\ uploads' = Remove(uploads, imageFile.path)
                 /\ Record(r, finalPath, uploads[imageFile.path])
                 /\ imageUrls' = [imageUrls EXCEPT ![r] =
                                     PushUrl(@, PublicUrl(finalPath))]
                 /\ i' = [i EXCEPT ![r] = @ + 1]
                 /\ IF i[r] + 1 <= Len(files[r])
                    THEN /\ Log(r, <<Event("write", i[r]),
                                     Event("put", i[r] + 1)>>)
                         /\ UNCHANGED <<pc, res>>
                    ELSE /\ SendJson(r, imageUrls'[r])
                         /\ Log(r, <<Event("write", i[r])>>)
                 /\ UNCHANGED <<err, key, canvases>>
    /\ releases' = [releases EXCEPT ![r] = Append(@, i[r])]
    /\ UNCHANGED <<variant, now, body, files, mode, outputDir, pdf,
                   imageBuffers, disconnectedAt, clientVars>>

\* s3.upload of the i-th file settles (S3 version, image branch).
UploadImage(r) ==
    /\ pc[r] = "uploadImage"
    /\ LET imageFile == files[r][i[r]]
       IN  \E ok \in BOOLEAN :
            IF ~ok
            THEN StoreFailed(r, i[r])
            ELSE /\ storage' = Put(storage, key[r], imageFile.buffer)
                 /\ Record(r, key[r], imageFile.buffer)
                 /\ imageUrls' = [imageUrls EXCEPT ![r] =
                                     PushUrl(@, S3Location(key[r]))]
                 /\ i' = [i EXCEPT ![r] = @ + 1]
                 /\ IF i[r] + 1 <= Len(files[r])
                    THEN /\ key' = [key EXCEPT ![r] =
                                S3Key(now, files[r][i[r] + 1].originalname)]
                         /\ Log(r, <<Event("write", i[r]),
                                     Event("put", i[r] + 1)>>)
                         /\ UNCHANGED <<pc, res>>
                    ELSE /\ SendJson(r, imageUrls'[r])
                         /\ Log(r, <<Event("write", i[r])>>)
                         /\ UNCHANGED key
                 /\ UNCHANGED <<err, uploads, canvases>>
    /\ UNCHANGED <<variant, now, body, files, mode, outputDir, pdf,
                   imageBuffers, releases, disconnectedAt, clientVars>>

\* fs.unlink(pdfFilePath) after the conversion settles (local-file versions):
\* the handler answers with the URLs, or the rejection reaches the catch.
Unlink(r) ==
    /\ pc[r] = "unlink"
    /\ LET pdfFilePath == files[r][1].path
       IN  \E ok \in BOOLEAN :
            IF ok /\ pdfFilePath \in DOMAIN uploads
            THEN /\ uploads' = Remove(uploads, pdfFilePath)
                 /\ SendJson(r, imageUrls[r])
                 /\ UNCHANGED err
            ELSE /\ Throw(r, "unlink", 0)
                 /\ UNCHANGED uploads
    /\ releases' = [releases EXCEPT ![r] = Append(@, 1)]
    /\ UNCHANGED <<variant, now, body, files, mode, storage, outputDir, pdf, i,
                   imageBuffers, key, imageUrls, stored, trace, canvases,
                   disconnectedAt, clientVars>>

\* fs.unlink(pdfFilePath).catch(...) in the catch block of the single-file
\* handler settles; a rejection is logged.  Then the handler answers 500.
CatchUnlink(r) ==
    /\ pc[r] = "catch"
    /\ LET pdfFilePath == files[r][1].path
       IN  \E ok \in BOOLEAN :
            IF ok /\ pdfFilePath \in DOMAIN uploads
            THEN uploads' = Remove(uploads, pdfFilePath)
            ELSE UNCHANGED uploads
    /\ releases' = [releases EXCEPT ![r] = Append(@, 1)]
    /\ res' = [res EXCEPT ![r] = Append(@, CatchResponse(imageUrls[r]))]
    /\ pc' = [pc EXCEPT ![r] = "done"]
    /\ UNCHANGED <<variant, now, body, files, mode, storage, outputDir, pdf, i,
                   imageBuffers, key, imageUrls, err, stored, trace, canvases,
                   disconnectedAt, clientVars>>

\* The client closes the connection while its batch is being processed.  No
\* handler listens for it: nothing but the socket changes.  One client going
\* away is followed; the other stays connected.
Disconnect(r) ==
    /\ pc[r] \notin {"idle", "multer", "done"}
    /\ \A q \in Requests : disconnectedAt[q] = -1
    /\ disconnectedAt' = [disconnectedAt EXCEPT ![r] = Len(trace[r])]
    /\ UNCHANGED <<variant, now, pc, body, files, mode, uploads, storage,
                   outputDir, pdf, i, imageBuffers, key, imageUrls, res, err,
                   stored, trace, canvases, releases, clientVars>>

Next ==
    \/ Tick
    \/ \E r \in Requests : Arrive(r)
    \/ \E r \in Requests : MulterFile(r)
    \/ \E r \in Requests : HandlerArray(r)
    \/ \E r \in Requests : HandlerSingle(r)
    \/ \E r \in Requests : ReadFile(r)
    \/ \E r \in Requests : GetDocument(r)
    \/ \E r \in Requests : Render(r)
    \/ \E r \in Requests : WriteFile(r)
    \/ \E r \in Requests : UploadPage(r)
    \/ \E r \in Requests : Rename(r)
    \/ \E r \in Requests : UploadImage(r)
    \/ \E r \in Requests : Unlink(r)
    \/ \E r \in Requests : CatchUnlink(r)

\* The same server with clients that may go away.
NextCancel == Next \/ \E r \in Requests : Disconnect(r)

SpecCancel == Init /\ [][NextCancel]_vars

Spec == Init /\ [][Next]_vars

----------------------------------------------------------------------------
\* Properties.

Done(r) == pc[r] = "done"
Handled(r) == pc[r] \notin {"idle", "multer"}
Succeeded(r) == Done(r) /\ Len(res[r]) = 1 /\ res[r][1].status = 200
\* The locators the caller of r received.
Locators(r) == res[r][1].imageUrls
\* The number of items of the batch the handler processes: the pages of the
\* document pdfjs opened, or the files of the collection.
ItemCount(r) ==
    IF mode[r] = "Document" THEN NumPages(pdf[r]) ELSE Len(body[r])
KeysOf(r) == {stored[r][j].key : j \in 1..Len(stored[r])}
\* The locator resolves to an asset holding these bytes.
Resolves(url, bytes) ==
    \E k \in DOMAIN storage : LocatorOf(k) = url /\ storage[k] = bytes
\* The batch as the client sent it is one file declared application/pdf.
OnePdfSent(r) == Len(body[r]) = 1 /\ body[r][1].mimetype = PDF

\* C1: on the upload.array handlers, a handled non-empty batch took the
\* Document branch exactly when it was sent as one file declared
\* application/pdf, every other one took the Collection branch, and nothing
\* of a Collection batch was opened or rendered.
C1_Classification ==
    variant \in {"disk", "s3"} =>
        \A r \in Requests :
            (Handled(r) /\ Len(body[r]) >= 1) =>
                /\ mode[r] = "Document" <=> OnePdfSent(r)
                /\ mode[r] = "Collection" <=> ~OnePdfSent(r)
                /\ mode[r] = "Collection" =>
                        /\ pdf[r] = NoPdf
                        /\ imageBuffers[r] = <<>>
                        /\ \A j \in 1..Len(stored[r]) :
                                stored[r][j].content[1] # "png"

\* A two-file batch holding a declared PDF went through as a Collection while
\* a one-PDF batch went through as a Document.
C1_Witness ==
    /\ variant \in {"disk", "s3"}
    /\ \E r \in Requests, q \in Requests :
        /\ Succeeded(r) /\ mode[r] = "Collection" /\ Len(body[r]) = 2
        /\ body[r][1].mimetype = PDF
        /\ Succeeded(q) /\ mode[q] = "Document" /\ Len(stored[q]) >= 1

\* C2: a document answered with success has one locator per page of the
\* opened document, the p-th write of the request stored the rendering of
\* page p, and the p-th locator is the locator of that write.
C2_OrderPreservation ==
    \A r \in Requests :
        (Succeeded(r) /\ mode[r] = "Document") =>
            /\ Len(Locators(r)) = NumPages(pdf[r])
            /\ Len(stored[r]) = NumPages(pdf[r])
            /\ \A p \in 1..NumPages(pdf[r]) :
                /\ stored[r][p].content = RenderPage(pdf[r], p)
                /\ Locators(r)[p] = LocatorOf(stored[r][p].key)

\* A document of at least two pages was answered with success.
C2_Witness ==
    \E r \in Requests :
        Succeeded(r) /\ mode[r] = "Document" /\ NumPages(pdf[r]) >= 2

\* C3: a Collection batch answered with success has one locator per uploaded
\* file, in upload order, and the j-th locator resolves to the bytes of the
\* j-th uploaded file.
C3_PassThrough ==
    \A r \in Requests :
        (Succeeded(r) /\ mode[r] = "Collection") =>
            /\ Len(Locators(r)) = Len(body[r])
            /\ \A j \in 1..Len(body[r]) :
                    Resolves(Locators(r)[j], body[r][j].content)

\* C4: when the rendering of a page failed, the request has written no page
\* image to the storage backend, and it ends with an error.
C4_NoPartialPublication ==
    \A r \in Requests :
        err[r].kind = "render" =>
            /\ stored[r] = <<>>
            /\ Done(r) => res[r] = <<CatchResponse(<<>>)>>

\* C5: on the local-file versions, a request that has answered has left none
\* of its temporary uploads in the uploads directory.
C5_CleanupTotality ==
    variant \in {"disk", "single"} =>
        \A r \in Requests :
            Done(r) =>
                \A j \in 1..Len(files[r]) : files[r][j].path \notin DOMAIN uploads

\* C6: the keys written by two different requests are disjoint.
C6_KeyUniqueness ==
    \A r \in Requests, q \in Requests :
        r # q => KeysOf(r) \cap KeysOf(q) = {}

\* C7: once every request has finished, each locator returned for a document
\* resolves to an image rendered from the document its own request sent.
C7_Isolation ==
    (\A q \in Requests : Done(q)) =>
        \A r \in Requests :
            (Succeeded(r) /\ mode[r] = "Document") =>
                \A p \in 1..Len(Locators(r)) :
                    \E n \in 1..MaxPages :
                        Resolves(Locators(r)[p], <<"png", r, n>>)

\* C8: a request is answered at most once and exactly once when it has ended;
\* a success carries one locator per item of the batch and follows no
\* exception, any other answer carries no locator.
C8_NoPartialSuccess ==
    \A r \in Requests :
        /\ Len(res[r]) <= 1
        /\ Done(r) <=> Len(res[r]) = 1
        /\ \A n \in 1..Len(res[r]) :
            IF res[r][n].status = 200
            THEN /\ err[r] = NoErr
                 /\ Len(res[r][n].imageUrls) = ItemCount(r)
                 /\ Len(stored[r]) = ItemCount(r)
            ELSE res[r][n].imageUrls = <<>>

\* A request whose second storage write failed, after the first had
\* succeeded, was answered with an error.
C8_Witness ==
    \E r \in Requests :
        /\ Done(r) /\ err[r] = [kind |-> "store", index |-> 2]
        /\ Len(stored[r]) = 1
        /\ res[r][1].status = 500

\* C9: when the storage write of item k failed, exactly the writes of items
\* 1..k-1 were made by the request, now and ever after, each of their keys is
\* still held by the backend, and the request ends with an error.
C9_PublishFailure ==
    \A r \in Requests :
        err[r].kind = "store" =>
            /\ Len(stored[r]) = err[r].index - 1
            /\ KeysOf(r) \subseteq DOMAIN storage
            /\ Done(r) => (Len(res[r]) = 1 /\ res[r][1].status = 500)

\* The write of item 2 of a request failed after item 1 was stored, and the
\* request has ended.
C9_Witness ==
    \E r \in Requests :
        /\ err[r].kind = "store" /\ err[r].index = 2
        /\ Len(stored[r]) = 1 /\ Done(r)

\* C10: a document that opened with zero pages is never answered with
\* success.
C10_EmptyDocument ==
    \A r \in Requests :
        (mode[r] = "Document" /\ pdf[r] # NoPdf /\ NumPages(pdf[r]) = 0) =>
            ~Succeeded(r)

\* C11: a handler invoked with zero files has answered once, with a
\* client-error status and no locator, and the request made no storage write,
\* opened no document, started no render and created no canvas.
C11_EmptyBatch ==
    \A r \in Requests :
        (Handled(r) /\ Len(body[r]) = 0) =>
            /\ Done(r)
            /\ Len(res[r]) = 1
            /\ res[r][1].status \in 400..499
            /\ res[r][1].imageUrls = <<>>
            /\ stored[r] = <<>>
            /\ trace[r] = <<>>
            /\ canvases[r] = 0
            /\ pdf[r] = NoPdf

\* An empty batch was answered while the other request stored a page.
C11_Witness ==
    \E r \in Requests, q \in Requests :
        /\ Done(r) /\ Len(body[r]) = 0 /\ Len(res[r]) = 1
        /\ Len(stored[q]) >= 1

\* C12: when opening the document failed, the request has started no page
\* render, has written nothing to the storage backend, and ends with one
\* error response that carries no locator.
C12_DocumentOpenFailure ==
    \A r \in Requests :
        err[r].kind = "open" =>
            /\ trace[r] = <<>>
            /\ canvases[r] = 0
            /\ stored[r] = <<>>
            /\ Len(res[r]) <= 1
            /\ Done(r) =>
                /\ Len(res[r]) = 1
                /\ res[r][1].status >= 400
                /\ res[r][1].imageUrls = <<>>

\* A request whose document did not open has ended.
C12_Witness ==
    \E r \in Requests :
        /\ Done(r) /\ err[r].kind = "open"
        /\ mode[r] = "Document" /\ pdf[r] = NoPdf

\* C13: on the local-file versions, a request that has ended with every page
\* of its document rendered and stored was answered with success and one
\* locator per page, whatever became of the deletion of its upload; and a
\* request whose processing failed was answered with an error.
C13_ReleaseNotEscalated ==
    variant \in {"disk", "single"} =>
        \A r \in Requests :
            Done(r) =>
                /\ (/\ mode[r] = "Document" /\ pdf[r] # NoPdf
                    /\ NumPages(pdf[r]) >= 1
                    /\ Len(stored[r]) = NumPages(pdf[r]))
                        => /\ Succeeded(r)
                           /\ Len(Locators(r)) = NumPages(pdf[r])
                /\ err[r].kind \in {"read", "open", "render", "store"}
                        => (Len(res[r]) = 1 /\ res[r][1].status = 500)

\* The number of times x occurs in s.
Count(s, x) == Cardinality({n \in 1..Len(s) : s[n] = x})

\* C14: on the local-file versions, the release of each temporary upload of
\* a request is never attempted twice, and it has been attempted once when
\* the request has ended.
C14_ReleaseExactlyOnce ==
    variant \in {"disk", "single"} =>
        \A r \in Requests :
            \A j \in 1..Len(files[r]) :
                /\ Count(releases[r], j) <= 1
                /\ Done(r) => Count(releases[r], j) = 1

\* C15: once the client of a request has gone away, the request starts no
\* further page render and no further storage write, it is never answered
\* with a locator list, and when it has ended none of its temporary uploads
\* is left in the uploads directory.
C15_Cancellation ==
    \A r \in Requests :
        disconnectedAt[r] >= 0 =>
            /\ \A n \in (disconnectedAt[r] + 1)..Len(trace[r]) :
                    trace[r][n].ev \notin {"start", "put"}
            /\ \A n \in 1..Len(res[r]) : res[r][n].status # 200
            /\ Done(r) =>
                \A j \in 1..Len(files[r]) :
                    files[r][j].path \notin DOMAIN uploads

\* The pages a request has rendered and encoded, in the order it did.
Rendered(r) ==
    LET encoded == SelectSeq(trace[r], LAMBDA e : e.ev = "encode")
    IN  [n \in 1..Len(encoded) |-> encoded[n].page]

\* C16: the pages a request has rendered so far are 1, 2, ..., m in this
\* order for some m up to the page count of its document, and they are all
\* the pages when the request is answered with success.
C16_Gaplessness ==
    \A r \in Requests :
        LET rendered == Rendered(r)
        IN  /\ \A n \in 1..Len(rendered) : rendered[n] = n
            /\ Len(rendered) >= 1 =>
                    /\ mode[r] = "Document" /\ pdf[r] # NoPdf
                    /\ Len(rendered) <= NumPages(pdf[r])
            /\ (Succeeded(r) /\ mode[r] = "Document") =>
                    Len(rendered) = NumPages(pdf[r])

\* A document of at least two pages was rendered in full and answered with
\* success, while another render stopped after its first page.
C16_Witness ==
    \E r \in Requests, q \in Requests :
        /\ Succeeded(r) /\ mode[r] = "Document"
        /\ NumPages(pdf[r]) >= 2 /\ Len(Rendered(r)) = NumPages(pdf[r])
        /\ Done(q) /\ err[q].kind = "render" /\ Len(Rendered(q)) = 1

\* C17: a batch answered with success made exactly one storage write per
\* page or per file, and no two completed writes, of one request or of two,
\* went to the same key.
C17_FreshKeys ==
    /\ \A r \in Requests :
            (Succeeded(r) /\ Len(body[r]) >= 1) => Len(stored[r]) = ItemCount(r)
    /\ \A r \in Requests, q \in Requests :
            \A j \in 1..Len(stored[r]), k \in 1..Len(stored[q]) :
                (r # q \/ j # k) => stored[r][j].key # stored[q][k].key

\* C18: every render of a page after the first started after the page before
\* it was rendered and encoded and, on the local-file versions, written; and
\* when a render starts, every render the request started before has settled.
C18_Sequential ==
    \A r \in Requests :
        \A n \in 1..Len(trace[r]) :
            trace[r][n].ev = "start" =>
                LET p == trace[r][n].page
                IN  /\ p > 1 => \E m \in 1..(n - 1) :
                            trace[r][m].ev = "encode" /\ trace[r][m].page = p - 1
                    /\ (p > 1 /\ variant # "s3") => \E m \in 1..(n - 1) :
                            trace[r][m].ev = "write" /\ trace[r][m].page = p - 1
                    /\ \A m \in 1..(n - 1) :
                            trace[r][m].ev = "start" =>
                                \E k \in (m + 1)..(n - 1) :
                                    /\ trace[r][k].ev \in {"encode", "fail"}
                                    /\ trace[r][k].page = trace[r][m].page

\* The render of the second page of a document has started, on a local-file
\* version, after the first page was written.
C18_Witness ==
    /\ variant # "s3"
    /\ \E r \in Requests :
        \E n \in 1..Len(trace[r]) :
            /\ trace[r][n].ev = "start" /\ trace[r][n].page = 2
            /\ \E m \in 1..(n - 1) :
                    trace[r][m].ev = "write" /\ trace[r][m].page = 1

\* C19: no two page renders, of one document or of two batches, were started
\* on the same canvas.
C19_FreshSurface ==
    \A r \in Requests, q \in Requests :
        \A n \in 1..Len(trace[r]), m \in 1..Len(trace[q]) :
            (/\ trace[r][n].ev = "start" /\ trace[q][m].ev = "start"
             /\ (r # q \/ n # m))
                => trace[r][n].canvas # trace[q][m].canvas

\* Two pages of one document and a page of another batch were rendered.
C19_Witness ==
    \E r \in Requests, q \in Requests :
        /\ r # q
        /\ Len(Rendered(r)) >= 2
        /\ Len(Rendered(q)) >= 1

\* The temporary uploads of a request.
TempPaths(r) == {files[r][j].path : j \in 1..Len(files[r])}

\* C20: on the local-file versions, two requests that are both in progress
\* have no temporary upload in common.
C20_TempIsolation ==
    variant \in {"disk", "single"} =>
        \A r \in Requests, q \in Requests :
            (r # q /\ pc[r] \notin {"idle", "done"}
                   /\ pc[q] \notin {"idle", "done"})
                => TempPaths(r) \cap TempPaths(q) = {}

\* The files of r whose release was attempted.
Released(r) == {releases[r][n] : n \in 1..Len(releases[r])}

\* C23: on the local-file versions, a document's upload is released without
\* a processing error only after every page is stored; a request answered
\* with success has attempted the release of each of its uploads before;
\* while a request is in progress every upload it has not released itself is
\* still in the uploads directory; and no request finds its upload gone when
\* it reads it.
C23_ReleaseOrdering ==
    variant \in {"disk", "single"} =>
        \A r \in Requests :
            /\ (/\ mode[r] = "Document" /\ releases[r] # <<>>
                /\ err[r].kind \in {"none", "unlink"})
                    => Len(stored[r]) = NumPages(pdf[r])
            /\ Succeeded(r) => Released(r) = 1..Len(files[r])
            /\ (Handled(r) /\ ~Done(r)) =>
                    \A j \in 1..Len(files[r]) :
                        j \notin Released(r) => files[r][j].path \in DOMAIN uploads
            /\ err[r].kind # "read"

\* The request failed on its input: no file, or a document that did not open.
BadInput(r) == Done(r) /\ (Len(body[r]) = 0 \/ err[r].kind = "open")
\* The request failed while processing: a page render or a storage write.
ProcessingFailure(r) == Done(r) /\ err[r].kind \in {"render", "store"}

\* C24: a request that failed on its input and a request that failed while
\* processing are never answered with the same status.
C24_DistinctFailureClasses ==
    \A r \in Requests, q \in Requests :
        (BadInput(r) /\ ProcessingFailure(q)) =>
            res[r][1].status # res[q][1].status

----------------------------------------------------------------------------
\* The keys of the pages of one document, character by character.

\* `${n}`: the decimal digits of n, as character codes.
RECURSIVE Decimal(_)
Decimal(n) ==
    IF n < 10 THEN <<48 + n>> ELSE Decimal(n \div 10) \o <<48 + (n % 10)>>

\* `page_${i}.png`
PageNameChars(p) == <<112, 97, 103, 101, 95>> \o Decimal(p) \o <<46, 112, 110, 103>>

\* path.join(__dirname, 'public', 'output', `${Date.now()}`, `page_${i}.png`),
\* below __dirname: public/output/<t>/page_<i>.png
OutputPathChars(t, p) ==
    <<112, 117, 98, 108, 105, 99, 47, 111, 117, 116, 112, 117, 116, 47>>
        \o Decimal(t) \o <<47>> \o PageNameChars(p)

\* Key: `output/${Date.now()}-${filename}`
S3KeyChars(t, filename) ==
    <<111, 117, 116, 112, 117, 116, 47>> \o Decimal(t) \o <<45>> \o filename

\* a < b for strings, by character code.
RECURSIVE LexLess(_, _)
LexLess(a, b) ==
    IF a = <<>> THEN b # <<>>
    ELSE IF b = <<>> THEN FALSE
    ELSE IF a[1] # b[1] THEN a[1] < b[1]
    ELSE LexLess(Tail(a), Tail(b))

\* The next page of the document gets its key: on local files the path below
\* the outputDir named when the handler started, on S3 the Key made from the
\* clock when the page is uploaded.
WritePage ==
    /\ Len(written) < MaxListed
    /\ LET p == Len(written) + 1
           t == IF variant = "s3" \/ written = <<>> THEN now ELSE written[1].time
           k == IF variant = "s3"
                THEN S3KeyChars(t, PageNameChars(p))
                ELSE OutputPathChars(t, p)
       IN  written' = Append(written, [page |-> p, time |-> t, key |-> k])
    /\ UNCHANGED <<serverVars, keyRest>>

NextKeys == Tick \/ WritePage

SpecKeys == Init /\ [][NextKeys]_vars

\* C21: of the keys written for one document, the key of an earlier page
\* sorts before the key of every later page.
C21_SortedKeys ==
    \A p \in 1..Len(written), q \in 1..Len(written) :
        p < q => LexLess(written[p].key, written[q].key)

----------------------------------------------------------------------------
\* The surface of each page.  Lengths are fractions <<numerator, denominator>>
\* where the code computes in floating point, whole numbers where the canvas
\* counts pixels.

\* Scale of a loop that doubles the page.
ScaleDouble == <<2, 1>>

\* const scale = 1.5
Scale == <<3, 2>>

\* page.getViewport({ scale }): the page's width and height times the scale.
GetViewport(page, scale) ==
    [width |-> <<page.width * scale[1], scale[2]>>,
     height |-> <<page.height * scale[1], scale[2]>>]

\* The whole number of pixels a canvas takes from a length handed to it: the
\* fraction is dropped.
Pixels(x) == x[1] \div x[2]

\* createCanvas(viewport.width, viewport.height)
CanvasFor(viewport) ==
    [width |-> Pixels(viewport.width), height |-> Pixels(viewport.height)]

\* One iteration of the page loop up to the allocation of its canvas, for a
\* page of any size.
AllocateSurface ==
    /\ Len(surfaces) < MaxPages
    /\ \E w \in 1..MaxSide, h \in 1..MaxSide :
        LET page == [width |-> w, height |-> h]
            scale == Scale
            viewport == GetViewport(page, scale)
            canvas == CanvasFor(viewport)
        IN  surfaces' = Append(surfaces,
                [page |-> page, scale |-> scale, viewport |-> viewport,
                 canvas |-> canvas])
    /\ UNCHANGED <<serverVars, scaleRest>>

NextScale == AllocateSurface

SpecScale == Init /\ [][NextScale]_vars

\* C22 as stated: every page is rendered with scale 3/2 and its surface has
\* exactly the page's width and height times 3/2.
C22_UniformScale ==
    \A n \in 1..Len(surfaces) :
        LET s == surfaces[n]
        IN  /\ s.scale[1] * 2 = s.scale[2] * 3
            /\ s.canvas.width * 2 = s.page.width * 3
            /\ s.canvas.height * 2 = s.page.height * 3

\* C22 amended: every page is rendered with scale 3/2, its viewport has
\* exactly the page's width and height times 3/2, and its surface has the
\* largest whole numbers of pixels not above the viewport's width and height.
C22_ScaleInWholePixels ==
    \A n \in 1..Len(surfaces) :
        LET s == surfaces[n]
        IN  /\ s.scale[1] * 2 = s.scale[2] * 3
            /\ s.viewport.width[1] * 2 = s.page.width * 3 * s.viewport.width[2]
            /\ s.viewport.height[1] * 2 = s.page.height * 3 * s.viewport.height[2]
            /\ s.canvas.width * 2 <= s.page.width * 3
            /\ s.page.width * 3 < (s.canvas.width + 1) * 2
            /\ s.canvas.height * 2 <= s.page.height * 3
            /\ s.page.height * 3 < (s.canvas.height + 1) * 2

\* Two pages were given surfaces, one of an odd and one of an even width.
C22_Witness ==
    /\ Len(surfaces) >= 2
    /\ \E n \in 1..Len(surfaces), m \in 1..Len(surfaces) :
        /\ surfaces[n].page.width % 2 = 1
        /\ surfaces[m].page.width % 2 = 0

----------------------------------------------------------------------------
\* ScrollableViewer (src/frontend/src/ScrollableViewer.jsx).

Urls == {"u", "v"}
\* The lists of image URLs a viewer may be given.
UrlLists == UNION {[1..n -> Urls] : n \in 0..MaxUrls}

Min(a, b) == IF a <= b THEN a ELSE b
Max(a, b) == IF a >= b THEN a ELSE b

\* c => Math.min(c + 1, imageUrls.length - 1)
NextPage(c, length) == Min(c + 1, length - 1)
\* c => Math.max(c - 1, 0)
PrevPage(c) == Max(c - 1, 0)

\* <ScrollableViewer imageUrls={...} /> is rendered for the first time:
\* useState(0), and the effect on [imageUrls] is scheduled.
MountScrollable ==
    /\ ~scrollable.mounted
    /\ \E urls \in UrlLists :
        scrollable' = [mounted |-> TRUE, imageUrls |-> urls, currentPage |-> 0,
                       effect |-> TRUE]
    /\ UNCHANGED <<serverVars, scrollRest>>

\* The parent renders the viewer with another list: the state is kept and
\* the effect on [imageUrls] is scheduled.
ReplaceUrls ==
    /\ scrollable.mounted
    /\ ~scrollable.effect
    /\ \E urls \in UrlLists :
        scrollable' = [scrollable EXCEPT !.imageUrls = urls, !.effect = TRUE]
    /\ UNCHANGED <<serverVars, scrollRest>>

\* useEffect(() => { setCurrentPage(0); }, [imageUrls])
ResetEffect ==
    /\ scrollable.effect
    /\ scrollable' = [scrollable EXCEPT !.currentPage = 0, !.effect = FALSE]
    /\ UNCHANGED <<serverVars, scrollRest>>

\* A click on the Next button, which is disabled when
\* currentPage === totalPages - 1.  Pending effects run before a click is
\* handled.
ClickNext ==
    /\ scrollable.mounted /\ ~scrollable.effect
    /\ scrollable.currentPage # Len(scrollable.imageUrls) - 1
    /\ scrollable' = [scrollable EXCEPT !.currentPage =
                        NextPage(@, Len(scrollable.imageUrls))]
    /\ UNCHANGED <<serverVars, scrollRest>>

\* A click on the Previous button, which is disabled when currentPage === 0.
ClickPrev ==
    /\ scrollable.mounted /\ ~scrollable.effect
    /\ scrollable.currentPage # 0
    /\ scrollable' = [scrollable EXCEPT !.currentPage = PrevPage(@)]
    /\ UNCHANGED <<serverVars, scrollRest>>

NextScroll ==
    MountScrollable \/ ReplaceUrls \/ ResetEffect \/ ClickNext \/ ClickPrev

SpecScroll == Init /\ [][NextScroll]_vars

\* C25: once the effect of a new list has run, currentPage is not negative
\* and not above max(0, imageUrls.length - 1).
C25_PageIndexValid ==
    (scrollable.mounted /\ ~scrollable.effect) =>
        /\ scrollable.currentPage >= 0
        /\ scrollable.currentPage <= Max(0, Len(scrollable.imageUrls) - 1)

----------------------------------------------------------------------------
\* FlipbookViewer.injectPages (src/frontend/src/FlipbookViewer.jsx and
\* src/unnamed/part_001).  A URL is a sequence of characters; the markup of
\* a page is a string the browser parses when it is assigned to innerHTML.

Quote == "\""
Alphabet == {"a", Quote}
\* The URLs the server may return: it copies file.originalname into them.
UrlStrings == UNION {[1..n -> Alphabet] : n \in 1..MaxUrlLen}
UrlStringLists == UNION {[1..n -> UrlStrings] : n \in 0..MaxUrls}

\* const API_URL = 'http://localhost:3001'
API_URL == <<"http://localhost:3001">>

\* `<div class="page" data-page="${i + 1}"><img class="page-image"
\*  src="${src}" draggable="false" /></div>`: the two interpolated values
\* between the fixed parts of the template.
PageMarkup(u, idx) == [kind |-> "page", dataPage |-> idx, src |-> API_URL \o u]
\* '<div class="page blank-page" data-page="blank"></div>'
BlankMarkup == [kind |-> "blank", dataPage |-> 0, src |-> <<>>]

\* The value the HTML parser gives a double-quoted attribute: the characters
\* up to the next double quote.
RECURSIVE AttributeValue(_)
AttributeValue(chars) ==
    IF chars = <<>> \/ Head(chars) = Quote THEN <<>>
    ELSE <<Head(chars)>> \o AttributeValue(Tail(chars))

\* The element the parser builds from the markup of one page.
ParseNode(markup) ==
    [kind |-> markup.kind, dataPage |-> markup.dataPage,
     src |-> AttributeValue(markup.src)]

\* nodes = urls.map(...); a blank page is pushed when nodes.length is odd;
\* flipbookRef.current.innerHTML = nodes.join('')
InjectedNodes(urls) ==
    LET nodes == [n \in 1..Len(urls) |-> PageMarkup(urls[n], (n - 1) + 1)]
        even == IF Len(nodes) % 2 = 1 THEN Append(nodes, BlankMarkup) ELSE nodes
    IN  [n \in 1..Len(even) |-> ParseNode(even[n])]

\* injectPages(urls) with the container mounted.
InjectPages ==
    /\ \E urls \in UrlStringLists :
        flipbook' = [injected |-> TRUE, urls |-> urls,
                     nodes |-> InjectedNodes(urls)]
    /\ UNCHANGED <<serverVars, flipRest>>

NextFlip == InjectPages

SpecFlip == Init /\ [][NextFlip]_vars

\* C26: after injectPages(urls) the container holds an even number of page
\* nodes; the i-th node is a page with data-page i and the i-th URL behind
\* API_URL as its src; and there is one more node, a blank page at the end,
\* exactly when the number of URLs is odd.
C26_PageInjection ==
    flipbook.injected =>
        LET urls == flipbook.urls
            nodes == flipbook.nodes
        IN  /\ Len(nodes) % 2 = 0
            /\ Len(nodes) = Len(urls) + (Len(urls) % 2)
            /\ \A n \in 1..Len(urls) :
                /\ nodes[n].kind = "page"
                /\ nodes[n].dataPage = n
                /\ nodes[n].src = API_URL \o urls[n]
            /\ Len(urls) % 2 = 1 => nodes[Len(nodes)].kind = "blank"

----------------------------------------------------------------------------
\* Editor.handleUpload and the Viewer it opens (src/frontend/src/Editor.jsx,
\* src/frontend/src/Viewer.jsx).

Layouts == {"single", "dual"}
\* response.data.imageUrls of a successful upload.
ResponseLists == {urls \in UrlLists : Len(urls) <= 2}

UploadError == "An error occurred during upload. Please check the console."

\* MenuData of a handler that ignores the layout chosen.
MenuDataDefaultLayout(urls, layout) == [imageUrls |-> urls, layout |-> "dual"]

\* { imageUrls: response.data.imageUrls, layout: layout }
MenuData(urls, layout) == [imageUrls |-> urls, layout |-> layout]

\* JSON.stringify(menuData): the text of the object, member by member.
JSONStringify(md) ==
    <<"{", "imageUrls", ":", md.imageUrls, ",", "layout", ":", md.layout, "}">>
\* JSON.parse(data)
JSONParse(text) == [imageUrls |-> text[4], layout |-> text[8]]

\* handleFileChange
HandleFileChange ==
    /\ \E n \in 0..1 :
        editor' = [editor EXCEPT !.selectedFiles = n, !.error = ""]
    /\ UNCHANGED <<sessionStorage, opened, responses, serverVars, editorRest>>

\* A layout radio button is chosen: setLayout(e.target.value).
SetLayout ==
    /\ \E l \in Layouts : editor' = [editor EXCEPT !.layout = l]
    /\ UNCHANGED <<sessionStorage, opened, responses, serverVars, editorRest>>

\* A click on Create Menu, enabled unless isLoading or no file is selected:
\* handleUpload runs up to the await of axios.post, with the layout of the
\* render the click came from.
HandleUpload ==
    /\ editor.pc = "idle"
    /\ ~editor.isLoading /\ editor.selectedFiles # 0
    /\ Len(responses) < MaxUploads
    /\ editor' = [editor EXCEPT !.isLoading = TRUE, !.error = "",
                                !.pc = "post", !.closure = editor.layout]
    /\ UNCHANGED <<sessionStorage, opened, responses, serverVars, editorRest>>

\* axios.post resolved: menuData is stored, the viewer is opened and reads
\* it (Viewer's effect), and finally isLoading is cleared.
PostResolved ==
    /\ editor.pc = "post"
    /\ \E urls \in ResponseLists :
        LET menuData == MenuData(urls, editor.closure)
        IN  /\ sessionStorage' = JSONStringify(menuData)
            /\ opened' = Append(opened, JSONParse(sessionStorage'))
            /\ editor' = [editor EXCEPT !.isLoading = FALSE, !.pc = "idle"]
            /\ responses' = Append(responses,
                    [ok |-> TRUE, imageUrls |-> urls, layout |-> editor.closure,
                     error |-> editor'.error, isLoading |-> editor'.isLoading])
    /\ UNCHANGED <<serverVars, editorRest>>

\* axios.post rejected (network error, timeout, status outside 2xx): the
\* catch block sets the error, and finally isLoading is cleared.
PostRejected ==
    /\ editor.pc = "post"
    /\ editor' = [editor EXCEPT !.error = UploadError, !.isLoading = FALSE,
                                !.pc = "idle"]
    /\ responses' = Append(responses,
            [ok |-> FALSE, imageUrls |-> <<>>, layout |-> editor.closure,
             error |-> editor'.error, isLoading |-> editor'.isLoading])
    /\ UNCHANGED <<sessionStorage, opened, serverVars, editorRest>>

NextEditor ==
    HandleFileChange \/ SetLayout \/ HandleUpload \/ PostResolved \/ PostRejected

SpecEditor == Init /\ [][NextEditor]_vars

\* The successful responses handled so far.
Successes == SelectSeq(responses, LAMBDA rsp : rsp.ok)

\* C27: a viewer was opened once for each successful response and read that
\* response's imageUrls, in their order, with the layout that was selected
\* when the upload was started; sessionStorage holds the menuData of the
\* latest successful response, or nothing when there was none; handleUpload
\* ended a failed upload with the error message set and a successful one
\* with none, and isLoading false in both cases.
C27_HandOffOnSuccess ==
    /\ Len(opened) = Len(Successes)
    /\ \A n \in 1..Len(opened) :
        /\ opened[n].imageUrls = Successes[n].imageUrls
        /\ opened[n].layout = Successes[n].layout
    /\ sessionStorage =
            IF Successes = <<>> THEN NoItem
            ELSE JSONStringify([imageUrls |-> Successes[Len(Successes)].imageUrls,
                                layout |-> Successes[Len(Successes)].layout])
    /\ \A n \in 1..Len(responses) :
        /\ ~responses[n].isLoading
        /\ responses[n].error = (IF responses[n].ok THEN "" ELSE UploadError)
    /\ editor.pc = "idle" => ~editor.isLoading

\* After a successful upload of two URLs with the single layout, a second
\* upload failed.
C27_Witness ==
    /\ Len(responses) = 2
    /\ responses[1].ok /\ Len(responses[1].imageUrls) = 2
    /\ responses[1].imageUrls[1] # responses[1].imageUrls[2]
    /\ responses[1].layout = "single"
    /\ ~responses[2].ok
    /\ sessionStorage # NoItem

----------------------------------------------------------------------------
\* FlipbookCanvasViewer (src/frontend/src/App.jsx): the PageFlip engine.

\* The preload effect on [imageUrls, ...]: the cleanup of the run before sets
\* its mounted flag to false, and the new run starts preloading, or returns
\* at once when there are no pages.
PreloadEffect ==
    /\ canvasViewer.run < MaxRuns
    /\ \E urls \in ResponseLists :
        /\ canvasViewer.run > 0 => urls # canvasViewer.imageUrls
        /\ canvasViewer' = [canvasViewer EXCEPT
              !.imageUrls = urls,
              !.run = @ + 1,
              !.attempts[canvasViewer.run + 1] =
                  IF Len(urls) = 0 THEN "done" ELSE "preload"]
    /\ UNCHANGED <<serverVars, engineRest>>

\* await Promise.all(...) resolved: if (!mounted) return; otherwise the
\* spreads are set and setTimeout(() => tryInitEngine(...), 60) is called.
Preloaded(k) ==
    /\ canvasViewer.attempts[k] = "preload"
    /\ canvasViewer' = [canvasViewer EXCEPT !.attempts[k] =
                          IF k = canvasViewer.run THEN "timer" ELSE "done"]
    /\ UNCHANGED <<serverVars, engineRest>>

\* tryInitEngine up to its await: if (pageFlipRef.current) return;
\* await import("page-flip").
TryInitEngine(k) ==
    [canvasViewer EXCEPT !.attempts[k] =
        IF canvasViewer.pageFlipRef # 0 THEN "done" ELSE "import"]

\* The 60 ms timer of run k fires.
InitTimer(k) ==
    /\ canvasViewer.attempts[k] = "timer"
    /\ canvasViewer' = TryInitEngine(k)
    /\ UNCHANGED <<serverVars, engineRest>>

\* The import resolved: the page nodes are built, new PageFlip(root, ...) is
\* instantiated and stored in pageFlipRef.current.
ImportResolved(k) ==
    /\ canvasViewer.attempts[k] = "import"
    /\ canvasViewer' = [canvasViewer EXCEPT
          !.attempts[k] = "done",
          !.engines = @ + 1,
          !.pageFlipRef = canvasViewer.engines + 1,
          !.engineAvailable = TRUE]
    /\ UNCHANGED <<serverVars, engineRest>>

\* The import was rejected, or the module has no PageFlip: the catch block
\* clears the timer in retryTimer.current and sets a new one of 800 ms.
ImportRejected(k) ==
    /\ canvasViewer.attempts[k] = "import"
    /\ canvasViewer.failures < MaxFailures
    /\ canvasViewer' = [canvasViewer EXCEPT
          !.attempts = [j \in 1..MaxRuns |->
              IF j = k THEN "retry"
              ELSE IF canvasViewer.attempts[j] = "retry" THEN "done"
              ELSE canvasViewer.attempts[j]],
          !.retryTimer = k,
          !.engineAvailable = FALSE,
          !.failures = @ + 1]
    /\ UNCHANGED <<serverVars, engineRest>>

\* The retry timer fires: tryInitAgain returns if pageFlipRef.current is
\* set, and otherwise awaits tryInitEngine.
TryInitAgain(k) ==
    /\ canvasViewer.attempts[k] = "retry"
    /\ canvasViewer' = TryInitEngine(k)
    /\ UNCHANGED <<serverVars, engineRest>>

NextEngine ==
    \/ PreloadEffect
    \/ \E k \in 1..MaxRuns :
        \/ Preloaded(k)
        \/ InitTimer(k)
        \/ ImportResolved(k)
        \/ ImportRejected(k)
        \/ TryInitAgain(k)

SpecEngine == Init /\ [][NextEngine]_vars

\* C28: one mounted FlipbookCanvasViewer instantiates at most one PageFlip
\* engine, however its initialisation attempts interleave.
C28_SingleEngine == canvasViewer.engines <= 1

----------------------------------------------------------------------------
\* FlipbookCanvasViewer (src/frontend/src/App.jsx): buildSpreads.

\* What preloadOne resolves with, without the sizes: a loaded image, or
\* { ok: false, url: null } when no candidate URL loads.
PreloadResults ==
    {[ok |-> TRUE, url |-> u] : u \in Urls} \cup {[ok |-> FALSE, url |-> "null"]}
PreloadedLists == UNION {[1..n -> PreloadResults] : n \in 0..MaxPreloaded}

\* null, and the undefined an index past the end of an array gives.
Null == [null |-> TRUE]
Undefined == [undefined |-> TRUE]

\* imgs[ix], with the indexes of the source (from 0).
At(imgs, ix) == IF ix + 1 \in DOMAIN imgs THEN imgs[ix + 1] ELSE Undefined
\* x || null: a preload result is an object, and so never falsy.
OrNull(x) == IF x \in {Undefined, Null} THEN Null ELSE x

\* for (let i = ...; i < imgs.length; i += 2)
\*     out.push({ left: imgs[i] || null, right: imgs[i + 1] || null })
RECURSIVE PushPairs(_, _)
PushPairs(imgs, ix) ==
    IF ix >= Len(imgs) THEN <<>>
    ELSE <<[left |-> OrNull(At(imgs, ix)), right |-> OrNull(At(imgs, ix + 1))]>>
            \o PushPairs(imgs, ix + 2)

\* The pairing without a cover spread.
BuildSpreadsNoCover(imgs) == PushPairs(imgs, 0)

\* buildSpreads(imgs)
BuildSpreads(imgs) ==
    IF Len(imgs) = 0 THEN <<>>
    ELSE <<[left |-> Null, right |-> imgs[1]]>> \o PushPairs(imgs, 1)

\* The preloading of a list resolved: setPreloaded(results) and
\* setSpreads(buildSpreads(results) with the layouts).
SetPreloaded ==
    /\ \E results \in PreloadedLists :
        /\ preloaded' = results
        /\ spreads' = BuildSpreads(results)
    /\ UNCHANGED <<serverVars, spreadRest>>

NextSpreads == SetPreloaded

SpecSpreads == Init /\ [][NextSpreads]_vars

\* The pages in the slots of a list of spreads, left before right.
RECURSIVE Slots(_)
Slots(out) ==
    IF out = <<>> THEN <<>>
    ELSE (IF Head(out).left = Null THEN <<>> ELSE <<Head(out).left>>)
         \o (IF Head(out).right = Null THEN <<>> ELSE <<Head(out).right>>)
         \o Slots(Tail(out))

\* ceil(n / 2)
CeilHalf(n) == (n + 1) \div 2

\* C29: the spreads of n >= 1 preloaded pages are the cover (left empty,
\* right = page 1) and then the pairs (page 2k, page 2k+1 or empty); the
\* slots hold every page once, in list order; there are 1 + ceil((n-1)/2)
\* spreads; and no spreads for n = 0.
C29_SpreadBuilding ==
    LET n == Len(preloaded) IN
    IF n = 0 THEN spreads = <<>>
    ELSE /\ Len(spreads) = 1 + CeilHalf(n - 1)
         /\ spreads[1] = [left |-> Null, right |-> preloaded[1]]
         /\ \A k \in 1..(Len(spreads) - 1) :
               /\ spreads[k + 1].left = preloaded[2 * k]
               /\ spreads[k + 1].right =
                     IF 2 * k + 1 <= n THEN preloaded[2 * k + 1] ELSE Null
         /\ Slots(spreads) = preloaded

\* A list of four pages, one of which failed to load, has been built into
\* three spreads, the last with an empty right slot.
C29_Witness ==
    /\ Len(preloaded) = 4
    /\ \E p \in 1..4 : ~preloaded[p].ok
    /\ Len(spreads) = 3
    /\ spreads[3].right = Null

----------------------------------------------------------------------------
\* The zoom-capable FlipbookViewer (src/unnamed/part_001, second component).

\* el.style.transform after applyZoomTransform, and the default zoomScale.
Scaled == "translate(0px, 0px) scale(2)"
NoPan == <<0, 0>>

\* Every event but 'turned' ends the moment just after a page turn.
OtherEvent(fields) == [fields EXCEPT !.turnedZoomed = FALSE]

\* The init effect on [menuData] with a non-empty list: turn.js is set up
\* with a 'turned' callback that closes over the zoomed of this render.
InitBook ==
    /\ zoomBook.inits < MaxInits
    /\ zoomBook.turning = 0
    /\ \E n \in 2..MaxBookPages :
        zoomBook' = OtherEvent([zoomBook EXCEPT
            !.inits = @ + 1,
            !.totalPages = n,
            !.captured = zoomBook.zoomed,
            !.currentPage = 1])
    /\ UNCHANGED <<serverVars, zoomRest>>

\* toggleZoomTool
ToggleZoomTool ==
    /\ zoomBook.inits > 0
    /\ zoomBook' = OtherEvent([zoomBook EXCEPT !.zoomToolActive = ~@])
    /\ UNCHANGED <<serverVars, zoomRest>>

\* onDblClick: nothing without the zoom tool; when not zoomed the hi-res swap
\* is started; when zoomed, clearZoomTransform() and setZoomed(false).
OnDblClick ==
    /\ zoomBook.inits > 0
    /\ zoomBook.zoomToolActive
    /\ ~zoomBook.swapping
    /\ zoomBook' = OtherEvent(
        IF ~zoomBook.zoomed
        THEN [zoomBook EXCEPT !.swapping = TRUE]
        ELSE [zoomBook EXCEPT !.pan = NoPan, !.transform = "", !.zoomed = FALSE])
    /\ UNCHANGED <<serverVars, zoomRest>>

\* swapToHiRes().then(...): panRef.current = { x: 0, y: 0 },
\* applyZoomTransform(relX, relY, zoomScale), setZoomed(true).
HiResSwapped ==
    /\ zoomBook.swapping
    /\ zoomBook' = OtherEvent([zoomBook EXCEPT
          !.swapping = FALSE, !.pan = NoPan, !.transform = Scaled,
          !.zoomed = TRUE])
    /\ UNCHANGED <<serverVars, zoomRest>>

\* resetZoom
ResetZoom ==
    /\ zoomBook.inits > 0
    /\ zoomBook' = OtherEvent([zoomBook EXCEPT
          !.pan = NoPan, !.transform = "", !.zoomed = FALSE,
          !.zoomToolActive = FALSE])
    /\ UNCHANGED <<serverVars, zoomRest>>

\* goFirst, goPrev, goNext, goLast: doTurn(...) starts the turn animation
\* towards another page; the buttons do not depend on the zoom state.
DoTurn ==
    /\ zoomBook.inits > 0
    /\ zoomBook.turning = 0
    /\ \E page \in 1..zoomBook.totalPages :
        /\ page # zoomBook.currentPage
        /\ zoomBook' = OtherEvent([zoomBook EXCEPT !.turning = page])
    /\ UNCHANGED <<serverVars, zoomRest>>

\* The 'turned' callback: setCurrentPage(page), and if (zoomed) the zoom
\* state, the pan offset and the transform are reset, where zoomed is the
\* constant of the render whose init effect registered the callback.
Turned ==
    /\ zoomBook.turning # 0
    /\ zoomBook' =
        LET paged == [zoomBook EXCEPT !.currentPage = zoomBook.turning,
                                      !.turning = 0,
                                      !.turnedZoomed = zoomBook.zoomed]
        IN  IF zoomBook.captured
            THEN [paged EXCEPT !.zoomed = FALSE, !.pan = NoPan, !.transform = ""]
            ELSE paged
    /\ UNCHANGED <<serverVars, zoomRest>>

NextZoom ==
    InitBook \/ ToggleZoomTool \/ OnDblClick \/ HiResSwapped \/ ResetZoom
        \/ DoTurn \/ Turned

SpecZoom == Init /\ [][NextZoom]_vars

\* C30: just after a page turn that completed while the book was zoomed in,
\* zoomed is false, and the zoom transform and the pan offset are cleared.
C30_ZoomResetOnTurn ==
    zoomBook.turnedZoomed =>
        /\ ~zoomBook.zoomed
        /\ zoomBook.transform = ""
        /\ zoomBook.pan = NoPan
====
